---- MODULE Spec2Model ----
(***************************************************************************)
(* Model of the batch command-execution engine of netdev_dep               *)
(* (src/exec/mdev_time.py, with src/exec/mdev_time.v1.6.py where the two   *)
(* share code) and of its predecessor src/exec/connect_mdev.py.            *)
(*                                                                         *)
(* Spec      the concurrent batch: batch_execute (the orchestrator, in the *)
(*           main thread), one execute_commands task per device in a      *)
(*           ThreadPoolExecutor, connect_device's retry loop, log_error    *)
(*           under write_lock, save_result, and KeyboardInterrupt.         *)
(* SpecLog   log_error's redaction of password=/secret= fields, as a pure  *)
(*           function of the error message.                                *)
(* SpecNorm  normalize_device_type evaluated on one input in two runs of   *)
(*           the program, and get_device_config on the same input.         *)
(* SpecMain  the start of main: load_excel over the inventory rows, then   *)
(*           the creation of the thread pool from --threads.               *)
(* SpecRerun the batch of Spec, started with a result file left by an      *)
(*           earlier run.                                                  *)
(* SpecLive  the batch of Spec with its threads scheduled fairly.          *)
(* SpecTask  one call of execute_commands in detail: connection            *)
(*           parameters, retry loop, post_connection_setup, the commands   *)
(*           sent and the blocks of the output, the handler.               *)
(* SpecV16   one call of execute_commands of src/exec/mdev_time.v1.6.py:    *)
(*           the session from the handshake to its close.                  *)
(* SpecMdev  src/exec/connect_mdev.py: net_dev.main and its mult_cmd_in    *)
(*           tasks, the failure-list lock and the working directory.       *)
(***************************************************************************)
EXTENDS Integers, Sequences, FiniteSets, TLC

VARIABLES
    max_workers,    \* batch_execute's max_workers argument (pool size)
    submitted,      \* number of devices passed to executor.submit so far
    tpc,            \* tpc[d]: where device d's future / task is
    attempts,       \* attempts[d]: ConnectHandler calls made for device d
    lastOutcome,    \* lastOutcome[d]: how the latest ConnectHandler call ended
    waits,          \* waits[d]: the time.sleep arguments of connect_device, in order
    cmdsEmpty,      \* cmdsEmpty[d]: the task found no command after split/strip
    hostname,       \* hostname[d]: device['hostname'] ("" while not set)
    result,         \* result[d]: what the future holds once the task is over
    cmdError,       \* cmdError[d]: a command of d failed; the output says so
    write_lock,     \* holder of write_lock: Unlocked, or a process id
    errorLog,       \* error.log: the chunks written so far, in file order
    opc,            \* where the main thread is in batch_execute
    cur,            \* the device whose future the for loop body is handling
    processed,      \* devices whose future went through the loop body
    success_count,  \* batch_execute's success_count
    files,          \* result directory: final path -> content
    tmpFiles,       \* temporary files left in the result directory
    ologKind,       \* which log_error call the main thread is in
    exitStatus,     \* process exit status (-1 while the process runs)
    logIn,          \* SpecLog: the error message given to log_error, in parts
    logOut,         \* SpecLog: the message part of the line log_error wrote
    logDone,        \* SpecLog: log_error has returned
    normIn,         \* SpecNorm: the raw device_type string
    normOut,        \* SpecNorm: normalize_device_type's result in runs 1 and 2
    cfgOut,         \* SpecNorm: key of the profile get_device_config returned
    threads,        \* SpecMain: args.threads, the requested concurrency
    rows,           \* SpecMain: the data rows of the inventory sheet
    rowIdx,         \* SpecMain: rows load_excel's loop has gone through
    devices,        \* SpecMain: load_excel's devices list (row numbers)
    warned,         \* SpecMain: rows for which the [WARN] line was printed
    mpc,            \* SpecMain: where main() is
    poolSize,       \* SpecMain: the executor's max_workers (0: no executor)
    scheduled,      \* SpecMain: rows whose device was passed to executor.submit
    device,         \* SpecTask: the device dict given to execute_commands
    config_set,     \* SpecTask: execute_commands' config_set argument
    tstep,          \* SpecTask: where execute_commands is
    tries,          \* SpecTask: ConnectHandler calls made by connect_device
    sleeps,         \* SpecTask: the time.sleep arguments so far, in order
    setupFailed,    \* SpecTask: a step of post_connection_setup failed
    sentCmds,       \* SpecTask: the commands sent to the device, in order
    all_output,     \* SpecTask: the blocks of the output, in order
    taskLog,        \* SpecTask: the log_error calls of the task, in order
    taskResult,     \* SpecTask: how execute_commands ended
    session,        \* SpecV16: the netmiko session: "none", "open", "closed"
    cwd,            \* SpecMdev: the process's working directory
    lock,           \* SpecMdev: holder of self.lock (Unlocked or a device)
    mtask,          \* SpecMdev: mtask[d]: where mult_cmd_in of device d is
    msubmitted,     \* SpecMdev: devices passed to self.pool.submit so far
    mmain,          \* SpecMdev: where net_dev.main is
    written         \* SpecMdev: the files written: directory, name, device

vars == <<max_workers, submitted, tpc, attempts, lastOutcome, waits,
          cmdsEmpty, hostname, result, cmdError, write_lock, errorLog, opc,
          cur,
          processed, success_count, files, tmpFiles, ologKind, exitStatus,
          logIn, logOut, logDone, normIn, normOut, cfgOut,
          threads, rows, rowIdx, devices, warned, mpc, poolSize, scheduled,
          device, config_set, tstep, tries, sleeps, setupFailed, sentCmds,
          all_output, taskLog, taskResult, session,
          cwd, lock, mtask, msubmitted, mmain, written>>

\* the variables of the batch, and those of the single-function specifications
batchVars == <<max_workers, submitted, tpc, attempts, lastOutcome, waits,
               cmdsEmpty, hostname, result, cmdError, write_lock, errorLog, opc,
          cur,
               processed, success_count, files, tmpFiles, ologKind, exitStatus>>
logVars == <<logIn, logOut, logDone>>
normVars == <<normIn, normOut, cfgOut>>
mainVars == <<threads, rows, rowIdx, devices, warned, mpc, poolSize, scheduled>>
taskVars == <<device, config_set, tstep, tries, sleeps, setupFailed, sentCmds,
              all_output, taskLog, taskResult, session>>
mdevVars == <<cwd, lock, mtask, msubmitted, mmain, written>>

--------------------------------------------------------------------------
(* Bounds of the model *)

NumDevices == 2
MaxWorkers == 2

(* Program constants *)

max_retries == 2
FilenameLimit == 60

Dev == 1..NumDevices
Main == 0                    \* process id of the main thread
Unlocked == -1               \* write_lock when no thread holds it
Proc == {Main} \cup Dev

--------------------------------------------------------------------------
(* Strings are sequences of one-character strings. *)

ForbiddenChars == {"\\", "/", "*", "?", ":", "\"", "<", ">", "|"}
WhiteSpace == {" ", "\t", "\n"}

RECURSIVE LStrip(_)
LStrip(s) == IF s # <<>> /\ Head(s) \in WhiteSpace THEN LStrip(Tail(s)) ELSE s

RECURSIVE RStrip(_)
RStrip(s) ==
    IF s # <<>> /\ s[Len(s)] \in WhiteSpace
    THEN RStrip(SubSeq(s, 1, Len(s) - 1)) ELSE s

Strip(s) == RStrip(LStrip(s))

Truncate(s, n) == IF Len(s) > n THEN SubSeq(s, 1, n) ELSE s

\* sanitize_filename: re.sub(r'[\\/*?:"<>|]', '', name).strip()[:60]
SanitizeFilename(name) ==
    Truncate(Strip(SelectSeq(name, LAMBDA c : c \notin ForbiddenChars)),
             FilenameLimit)

\* The inventory: device d's host and (normalized) device_type. The hosts
\* are distinct; those of devices 1 and 2 differ by a character that
\* sanitize_filename removes.
Digits == <<"1", "2", "3", "4", "5", "6", "7", "8", "9">>

Profile(d) ==
    IF d = 1 THEN [host |-> <<"h", "1">>, device_type |-> "cisco_ios"]
    ELSE IF d = 2 THEN [host |-> <<"h", "*", "1">>, device_type |-> "cisco_ios"]
    ELSE [host |-> <<"h", Digits[d]>>, device_type |-> "huawei"]

HostOf(d) == Profile(d).host
DeviceTypeOf(d) == Profile(d).device_type

\* save_result's filename: f"{sanitize_filename(ip)}_{hostname}_{vendor}_{device_type}.txt"
\* (vendor is a function of device_type).
ResultPath(ip, hn, device_type) == <<SanitizeFilename(ip), hn, device_type>>

PathOf(d) == ResultPath(HostOf(d), hostname[d], DeviceTypeOf(d))

--------------------------------------------------------------------------
(* Initial state: batch_execute is entered with the inventory and a pool    *)
(* size.                                                                    *)

Outcomes == {"ok", "timeout", "auth", "error"}

\* the outcomes tried for device d: "error" (an exception other than
\* netmiko's timeout and authentication ones) is tried on device 1, a
\* timeout and an authentication failure on devices 1 and 2; devices beyond
\* the second answer at the first attempt
OutcomesOf(d) ==
    IF d = 1 THEN Outcomes
    ELSE IF d = 2 THEN Outcomes \ {"error"}
    ELSE {"ok"}
ReadTimes == {"absent", "", "15"}       \* the optional readtime column

\* the readtime cells tried for device d: devices beyond the second have
\* no readtime column
ReadTimesOf(d) == IF d <= 2 THEN ReadTimes ELSE {"absent"}

\* extract_hostname: the name matched in the prompt, or 'unknown' when no
\* pattern matches or find_prompt raises. Every device's prompt shows the
\* name "sw"; reading it may fail on device 2.
HostNames(d) == IF d = 2 THEN {"sw", "unknown"} ELSE {"sw"}

BatchStart ==
    /\ max_workers \in 1..MaxWorkers
    /\ submitted = 0
    /\ tpc = [d \in Dev |-> "unsubmitted"]
    /\ attempts = [d \in Dev |-> 0]
    /\ lastOutcome = [d \in Dev |-> "none"]
    /\ waits = [d \in Dev |-> <<>>]
    /\ cmdsEmpty = [d \in Dev |-> FALSE]
    /\ hostname = [d \in Dev |-> ""]
    /\ result = [d \in Dev |-> "unset"]
    /\ cmdError = [d \in Dev |-> FALSE]
    /\ write_lock = Unlocked
    /\ errorLog = <<>>
    /\ opc = "submit"
    /\ cur = 0
    /\ processed = {}
    /\ success_count = 0
    /\ tmpFiles = [d \in Dev |-> "none"]
    /\ ologKind = "none"
    /\ exitStatus = -1

\* the first run of the day: the result directory holds no result yet
BatchInit == BatchStart /\ files = [q \in {} |-> 0]

\* the single-function specifications have not been given an input
LogIdle == logIn = <<>> /\ logOut = <<>> /\ logDone = FALSE
NormIdle == normIn = <<>> /\ normOut = <<<<>>, <<>>>> /\ cfgOut = ""
MainIdle ==
    /\ threads = 0 /\ rows = <<>> /\ rowIdx = 0 /\ devices = <<>>
    /\ warned = {} /\ mpc = "idle" /\ poolSize = 0 /\ scheduled = {}

TaskIdle ==
    /\ device = <<>> /\ config_set = FALSE /\ tstep = "idle" /\ tries = 0
    /\ sleeps = <<>> /\ setupFailed = FALSE /\ sentCmds = <<>>
    /\ all_output = <<>> /\ taskLog = <<>> /\ taskResult = "unset"
    /\ session = "none"
MdevIdle ==
    /\ cwd = "start" /\ lock = Unlocked /\ mtask = <<>> /\ msubmitted = 0
    /\ mmain = "idle" /\ written = {}

Init == BatchInit /\ LogIdle /\ NormIdle /\ MainIdle /\ TaskIdle /\ MdevIdle

\* the process runs: it has neither returned from main, exited nor been killed
Alive == opc \notin {"returned", "exited", "killed"}

Running(d) == tpc[d] \in {"connect", "dispatch", "logwait", "logmid"}

\* ThreadPoolExecutor(max_workers=max_workers): a worker is free
WorkerIdle == Cardinality({e \in Dev : Running(e)}) < max_workers

--------------------------------------------------------------------------
(* log_error: sanitize, then append one line to error.log under write_lock. *)
(* The line reaches the file in two chunks (a buffered write may be flushed *)
(* in several pieces); who/about identify the caller and the host logged.   *)

LockIgnored == TRUE
LockFree == write_lock = Unlocked

Chunk(p, about, kind, part) ==
    [who |-> p, about |-> about, kind |-> kind, part |-> part]

\* with write_lock: open("error.log", 'a') ... first part of the line written
LogEnter(p, about, kind) ==
    /\ LockFree
    /\ write_lock' = p
    /\ errorLog' = Append(errorLog, Chunk(p, about, kind, 1))

KeptBy(p) == write_lock
\* the end of `with write_lock:`: the holder releases the lock
ReleasedBy(p) == IF write_lock = p THEN Unlocked ELSE write_lock

\* rest of the line written, file closed, lock released
LogLeave(p, about, kind) ==
    /\ write_lock' = ReleasedBy(p)
    /\ errorLog' = Append(errorLog, Chunk(p, about, kind, 2))

--------------------------------------------------------------------------
(* execute_commands / connect_device: the task of device d, in a worker.    *)

\* what int(device.get('readtime', device_config['timeout'])) does
IntRaises(rt) == rt = ""

LoopBoundOffByOne == max_retries + 2
LoopBound == max_retries + 1            \* for attempt in range(max_retries + 1)

\* both except clauses of connect_device: if attempt < max_retries: sleep, continue
Retries(outcome, attempt) == attempt < max_retries

BackoffLinear(attempt) == 2 * attempt
Backoff(attempt) == 2 ^ attempt         \* time.sleep(2 ** attempt)

\* str.split(sep) for a one-character separator
RECURSIVE Split(_, _)
Split(s, sep) ==
    IF \A i \in 1..Len(s) : s[i] # sep THEN <<s>>
    ELSE LET i == CHOOSE k \in 1..Len(s) :
                      s[k] = sep /\ \A j \in 1..(k - 1) : s[j] # sep
         IN <<SubSeq(s, 1, i - 1)>> \o Split(SubSeq(s, i + 1, Len(s)), sep)

\* cmds = [c.strip() for c in mult_command.split(';') if c.strip()]
Cmds(mult_command) ==
    LET parts == Split(mult_command, ";")
        stripped == [i \in 1..Len(parts) |-> Strip(parts[i])]
        NonEmpty(c) == c # <<>>
    IN SelectSeq(stripped, NonEmpty)

\* values of a device's mult_command column ("" when the cell is empty)
MultCommands ==
    { <<>>, <<" ", ";", " ">>, <<"c">>, <<"c", " ", ";", " ", "d", ";">> }

\* the mult_command cells tried for device d: devices beyond the second
\* have one command
MultCommandsOf(d) == IF d <= 2 THEN MultCommands ELSE {<<"c">>}

NoCommandsIgnored(cmds) == FALSE
\* if not cmds: print [WARN], return None
NoCommands(cmds) == cmds = <<>>

\* A worker takes the oldest queued future and runs execute_commands up to
\* the first ConnectHandler call.
TaskStart(d) ==
    /\ Alive
    /\ tpc[d] = "pending"
    /\ \A e \in Dev : e < d => tpc[e] # "pending"
    /\ WorkerIdle
    /\ \E mc \in MultCommandsOf(d), rt \in ReadTimesOf(d) :
        /\ cmdsEmpty' = [cmdsEmpty EXCEPT ![d] = (Cmds(mc) = <<>>)]
        /\ IF NoCommands(Cmds(mc))
           THEN \* [WARN], return None
                /\ tpc' = [tpc EXCEPT ![d] = "done"]
                /\ result' = [result EXCEPT ![d] = "None"]
           ELSE IF IntRaises(rt)
           THEN \* ValueError while building params; the handler of
                \* execute_commands reads device_type, which is not bound
                \* yet, and raises in turn: the future holds an exception
                /\ tpc' = [tpc EXCEPT ![d] = "done"]
                /\ result' = [result EXCEPT ![d] = "Raised"]
           ELSE /\ tpc' = [tpc EXCEPT ![d] = "connect"]
                /\ UNCHANGED result
    /\ UNCHANGED <<logVars, normVars, mainVars, taskVars, mdevVars, max_workers, cmdError, submitted, attempts, lastOutcome, waits,
                   hostname, write_lock, errorLog, opc, cur, processed,
                   success_count, files, tmpFiles, ologKind, exitStatus>>

\* One iteration of connect_device's loop: ConnectHandler, then either the
\* post-connect setup (which swallows its errors) and return, or the handler.
ConnectAttempt(d) ==
    /\ Alive
    /\ tpc[d] = "connect"
    /\ \E o \in OutcomesOf(d) :
        LET attempt == attempts[d] IN
        /\ attempts' = [attempts EXCEPT ![d] = attempt + 1]
        /\ lastOutcome' = [lastOutcome EXCEPT ![d] = o]
        /\ IF o = "ok"
           THEN /\ tpc' = [tpc EXCEPT ![d] = "dispatch"]
                /\ UNCHANGED <<waits, result>>
           ELSE IF Retries(o, attempt)
           THEN /\ waits' = [waits EXCEPT ![d] = Append(@, Backoff(attempt))]
                /\ IF attempt + 1 < LoopBound
                   THEN /\ tpc' = tpc
                        /\ result' = result
                   ELSE \* loop exhausted: return None
                        /\ tpc' = [tpc EXCEPT ![d] = "done"]
                        /\ result' = [result EXCEPT ![d] = "None"]
           ELSE \* last attempt: log_error, then (loop over) return None
                /\ tpc' = [tpc EXCEPT ![d] = "logwait"]
                /\ UNCHANGED <<waits, result>>
    /\ UNCHANGED <<logVars, normVars, mainVars, taskVars, mdevVars, max_workers, cmdError, submitted, cmdsEmpty, hostname,
                   write_lock, errorLog, opc, cur, processed, success_count,
                   files, tmpFiles, ologKind, exitStatus>>

\* how the device takes the commands: all answered; one answered with an
\* error message of the device (send_command returns it as output); or
\* send_command / send_config_set raising (e.g. a read timeout)
SendOutcomes(d) == IF d = 1 THEN {"ok", "rejected", "raises"} ELSE {"ok"}

\* execute_show_commands and execute_config_commands catch every Exception
\* of a command and append its text to the outputs: nothing is raised
CommandsRaise(sent) == FALSE

\* with conn: hostname discovery, command execution (both swallow their
\* errors), join; an error leaving the session goes to the handler.
Dispatch(d) ==
    /\ Alive
    /\ tpc[d] = "dispatch"
    /\ \E hn \in HostNames(d), sent \in SendOutcomes(d), closed \in BOOLEAN :
        /\ hostname' = [hostname EXCEPT ![d] = hn]
        /\ cmdError' = [cmdError EXCEPT ![d] = (sent # "ok")]
        /\ IF closed /\ ~CommandsRaise(sent)
           THEN /\ tpc' = [tpc EXCEPT ![d] = "done"]
                /\ result' = [result EXCEPT ![d] = "Output"]
           ELSE /\ tpc' = [tpc EXCEPT ![d] = "logwait"]
                /\ result' = result
    /\ UNCHANGED <<logVars, normVars, mainVars, taskVars, mdevVars, max_workers, submitted, attempts, lastOutcome, waits,
                   cmdsEmpty, write_lock, errorLog, opc, cur, processed,
                   success_count, files, tmpFiles, ologKind, exitStatus>>

TaskLogKind(d) == IF lastOutcome[d] = "ok" THEN "exec" ELSE lastOutcome[d]

TaskLogEnter(d) ==
    /\ Alive
    /\ tpc[d] = "logwait"
    /\ LogEnter(d, d, TaskLogKind(d))
    /\ tpc' = [tpc EXCEPT ![d] = "logmid"]
    /\ UNCHANGED <<logVars, normVars, mainVars, taskVars, mdevVars, max_workers, cmdError, submitted, attempts, lastOutcome, waits,
                   cmdsEmpty, hostname, result, opc, cur, processed,
                   success_count, files, tmpFiles, ologKind, exitStatus>>

\* log_error returns. In execute_commands' handler: return None. In
\* connect_device's handler: the loop goes on to its next iteration if it
\* has one, else connect_device and then execute_commands return None.
TaskLogLeave(d) ==
    /\ Alive
    /\ tpc[d] = "logmid"
    /\ LogLeave(d, d, TaskLogKind(d))
    /\ IF lastOutcome[d] # "ok" /\ attempts[d] < LoopBound
       THEN /\ tpc' = [tpc EXCEPT ![d] = "connect"]
            /\ result' = result
       ELSE /\ tpc' = [tpc EXCEPT ![d] = "done"]
            /\ result' = [result EXCEPT ![d] = "None"]
    /\ UNCHANGED <<logVars, normVars, mainVars, taskVars, mdevVars, max_workers, cmdError, submitted, attempts, lastOutcome, waits,
                   cmdsEmpty, hostname, opc, cur, processed, success_count,
                   files, tmpFiles, ologKind, exitStatus>>

--------------------------------------------------------------------------
(* batch_execute, in the main thread.                                       *)

SubmitsFirstAgain == CHOOSE d \in Dev : \A e \in Dev : d <= e
\* `for dev in devices` of the dict comprehension: the device the next
\* executor.submit is for
NextToSubmit == submitted + 1

\* futures = {executor.submit(execute_commands, dev, config_set): dev for dev in devices}
Submit ==
    /\ opc = "submit"
    /\ submitted < NumDevices
    /\ submitted' = submitted + 1
    /\ tpc' = [tpc EXCEPT ![NextToSubmit] = "pending"]
    /\ UNCHANGED <<logVars, normVars, mainVars, taskVars, mdevVars, max_workers, cmdError, attempts, lastOutcome, waits, cmdsEmpty,
                   hostname, result, write_lock, errorLog, opc, cur, processed,
                   success_count, files, tmpFiles, ologKind, exitStatus>>

\* progress = tqdm(...); try: for future in as_completed(futures):
BeginDrain ==
    /\ opc = "submit"
    /\ submitted = NumDevices
    /\ opc' = "drain"
    /\ UNCHANGED <<logVars, normVars, mainVars, taskVars, mdevVars, max_workers, cmdError, submitted, tpc, attempts, lastOutcome,
                   waits, cmdsEmpty, hostname, result, write_lock, errorLog,
                   cur, processed, success_count, files, tmpFiles, ologKind,
                   exitStatus>>

CaughtByNone(raised) == FALSE
\* except Exception as e: log_error(dev['host'], str(e)) around the loop
\* body: what future.result() or save_result raises is caught when it is an
\* Exception (KeyboardInterrupt is not one).
CaughtByBatch(raised) == raised \in {"Exception", "OSError"}

\* as_completed yields a finished future; future.result() is looked at:
\* None: nothing to do but progress.update(1); an output: save_result is
\* called; an exception: the except clause calls log_error.
TakeCompleted(d) ==
    /\ opc = "drain"
    /\ tpc[d] = "done"
    /\ d \notin processed
    /\ IF result[d] = "None"
       THEN /\ processed' = processed \cup {d}
            /\ UNCHANGED <<opc, cur, ologKind>>
       ELSE IF result[d] = "Output"
       THEN /\ opc' = "save_open"
            /\ cur' = d
            /\ UNCHANGED <<processed, ologKind>>
       ELSE /\ opc' = (IF CaughtByBatch("Exception") THEN "logwait" ELSE "crashed")
            /\ cur' = d
            /\ ologKind' = "task"
            /\ UNCHANGED processed
    /\ UNCHANGED <<logVars, normVars, mainVars, taskVars, mdevVars, max_workers, cmdError, submitted, tpc, attempts, lastOutcome,
                   waits, cmdsEmpty, hostname, result, write_lock, errorLog,
                   success_count, files, tmpFiles, exitStatus>>

\* the file system with `content` at `path`
PutFile(fs, path, content) ==
    [q \in (DOMAIN fs) \cup {path} |-> IF q = path THEN content ELSE fs[q]]

OpenedInPlace(d) ==
    PutFile(files, PathOf(d), [dev |-> d, state |-> "empty", old |-> FALSE])
\* The final paths after tempfile.NamedTemporaryFile(delete=False,
\* dir=output_dir): the new file has a fresh name, no final path changes.
AfterOpen(d) == files


\* save_result up to the creation of the temporary file: os.makedirs (an
\* OSError here is outside save_result's try: it leaves save_result and is
\* caught by batch_execute), then NamedTemporaryFile creates the file.
SaveOpen ==
    /\ opc = "save_open"
    /\ \E io \in {"ok", "mkdir_fails"} :
        IF io = "ok"
        THEN /\ tmpFiles' = [tmpFiles EXCEPT ![cur] = "empty"]
             /\ files' = AfterOpen(cur)
             /\ opc' = "save_write"
             /\ UNCHANGED ologKind
        ELSE /\ opc' = (IF CaughtByBatch("OSError") THEN "logwait" ELSE "crashed")
             /\ ologKind' = "mkdir"
             /\ UNCHANGED <<tmpFiles, files>>
    /\ UNCHANGED <<logVars, normVars, mainVars, taskVars, mdevVars, max_workers, cmdError, submitted, tpc, attempts, lastOutcome,
                   waits, cmdsEmpty, hostname, result, write_lock, errorLog,
                   cur, processed, success_count, exitStatus>>

\* tmp_file.write(content) and the close at the end of the with block
SaveWrite ==
    /\ opc = "save_write"
    /\ \E io \in {"ok", "write_fails"} :
        IF io = "ok"
        THEN /\ tmpFiles' = [tmpFiles EXCEPT ![cur] = "full"]
             /\ opc' = "save_rename"
             /\ UNCHANGED ologKind
        ELSE /\ tmpFiles' = [tmpFiles EXCEPT ![cur] = "partial"]
             /\ opc' = "logwait"
             /\ ologKind' = "save"
    /\ UNCHANGED <<logVars, normVars, mainVars, taskVars, mdevVars, max_workers, cmdError, submitted, tpc, attempts, lastOutcome,
                   waits, cmdsEmpty, hostname, result, write_lock, errorLog,
                   cur, processed, success_count, files, exitStatus>>

\* what os.rename(tmp_path, final) leaves at the final path when it succeeds
\* (old: the content was written by an earlier run of the program)
Renamed(d) ==
    PutFile(files, PathOf(d), [dev |-> d, state |-> tmpFiles[d], old |-> FALSE])

\* os.rename onto a final path: it succeeds (on POSIX it replaces an existing
\* file), it fails with some OSError, or, when the final path exists and the
\* platform is Windows, it raises FileExistsError (an OSError)
RenameOutcomes(d) ==
    {"ok", "rename_fails"} \cup
    (IF PathOf(d) \in DOMAIN files THEN {"exists"} ELSE {})

\* os.rename(tmp_path, os.path.join(output_dir, filename)); back in
\* batch_execute: success_count += 1, progress.update(1)
SaveRename ==
    /\ opc = "save_rename"
    /\ \E io \in RenameOutcomes(cur) :
        IF io = "ok"
        THEN /\ files' = Renamed(cur)
             /\ tmpFiles' = [tmpFiles EXCEPT ![cur] = "none"]
             /\ success_count' = success_count + 1
             /\ processed' = processed \cup {cur}
             /\ opc' = "drain"
             /\ cur' = 0
             /\ UNCHANGED ologKind
        ELSE /\ opc' = "logwait"
             /\ ologKind' = (IF io = "exists" THEN "exists" ELSE "save")
             /\ UNCHANGED <<files, tmpFiles, success_count, processed, cur>>
    /\ UNCHANGED <<logVars, normVars, mainVars, taskVars, mdevVars, max_workers, cmdError, submitted, tpc, attempts, lastOutcome,
                   waits, cmdsEmpty, hostname, result, write_lock, errorLog,
                   exitStatus>>

MainLogEnter ==
    /\ opc = "logwait"
    /\ LogEnter(Main, cur, ologKind)
    /\ opc' = "logmid"
    /\ UNCHANGED <<logVars, normVars, mainVars, taskVars, mdevVars, max_workers, cmdError, submitted, tpc, attempts, lastOutcome,
                   waits, cmdsEmpty, hostname, result, cur, processed,
                   success_count, files, tmpFiles, ologKind, exitStatus>>

\* log_error returns: from save_result's handler (save_result returns and
\* the device is counted), or from batch_execute's handler (it is not).
MainLogLeave ==
    /\ opc = "logmid"
    /\ LogLeave(Main, cur, ologKind)
    /\ success_count' = (IF ologKind \in {"save", "exists"} THEN success_count + 1
                         ELSE success_count)
    /\ processed' = processed \cup {cur}
    /\ opc' = "drain"
    /\ cur' = 0
    /\ ologKind' = "none"
    /\ UNCHANGED <<logVars, normVars, mainVars, taskVars, mdevVars, max_workers, cmdError, submitted, tpc, attempts, lastOutcome,
                   waits, cmdsEmpty, hostname, result, files, tmpFiles,
                   exitStatus>>

NormalExitStatus == 0           \* main returns
InterruptExitStatus == 0        \* except KeyboardInterrupt: sys.exit(0)

\* the for loop is over: progress.close(), the summary line, the pool is
\* shut down (every task is over), batch_execute and main return.
Complete ==
    /\ opc = "drain"
    /\ processed = Dev
    /\ opc' = "returned"
    /\ exitStatus' = NormalExitStatus
    /\ UNCHANGED <<logVars, normVars, mainVars, taskVars, mdevVars, max_workers, cmdError, submitted, tpc, attempts, lastOutcome,
                   waits, cmdsEmpty, hostname, result, write_lock, errorLog,
                   cur, processed, success_count, files, tmpFiles, ologKind>>

\* executor.shutdown(wait=False, cancel_futures=True): queued futures are
\* cancelled; only the handler of the inner try (around the for loop) calls it.
CancelsQueued(at) == at \in {"drain", "save_open", "save_write", "save_rename", "logwait"}

\* KeyboardInterrupt is raised in the main thread. (While the main thread
\* is inside f.write/close of log_error the signal is handled after the call.)
Interrupt ==
    /\ opc \in {"submit", "drain", "save_open", "save_write", "save_rename", "logwait"}
    /\ tpc' = [d \in Dev |->
                 IF CancelsQueued(opc) /\ tpc[d] = "pending" THEN "cancelled"
                 ELSE tpc[d]]
    /\ opc' = "shutdown"
    \* the for loop is left for good: its locals (dev, result), the set of
    \* handled futures and success_count are not read again
    /\ cur' = 0 /\ ologKind' = "none"
    /\ processed' = {} /\ success_count' = 0
    /\ UNCHANGED <<logVars, normVars, mainVars, taskVars, mdevVars, max_workers, cmdError, submitted, attempts, lastOutcome, waits,
                   cmdsEmpty, hostname, result, write_lock, errorLog,
                   files, tmpFiles, exitStatus>>

\* leaving the with block: executor.shutdown(wait=True) joins the workers,
\* which first run whatever is still queued; then sys.exit(0).
InterruptExit ==
    /\ opc = "shutdown"
    /\ \A d \in Dev : tpc[d] \in {"unsubmitted", "done", "cancelled"}
    /\ opc' = "exited"
    /\ exitStatus' = InterruptExitStatus
    /\ UNCHANGED <<logVars, normVars, mainVars, taskVars, mdevVars, max_workers, cmdError, submitted, tpc, attempts, lastOutcome,
                   waits, cmdsEmpty, hostname, result, write_lock, errorLog,
                   cur, processed, success_count, files, tmpFiles, ologKind>>

\* The process is killed (SIGKILL, power loss) while save_result has its
\* temporary file open or written and not yet renamed: nothing runs any
\* more and the files stay as they are.
Kill ==
    /\ opc \in {"save_write", "save_rename"}
    /\ opc' = "killed"
    /\ UNCHANGED <<logVars, normVars, mainVars, taskVars, mdevVars, max_workers, cmdError, submitted, tpc, attempts, lastOutcome,
                   waits, cmdsEmpty, hostname, result, write_lock, errorLog,
                   cur, processed, success_count, files, tmpFiles, ologKind,
                   exitStatus>>

Next ==
    \/ \E d \in Dev : TaskStart(d)
    \/ \E d \in Dev : ConnectAttempt(d)
    \/ \E d \in Dev : Dispatch(d)
    \/ \E d \in Dev : TaskLogEnter(d)
    \/ \E d \in Dev : TaskLogLeave(d)
    \/ Submit
    \/ BeginDrain
    \/ \E d \in Dev : TakeCompleted(d)
    \/ SaveOpen
    \/ SaveWrite
    \/ SaveRename
    \/ MainLogEnter
    \/ MainLogLeave
    \/ Complete
    \/ Interrupt
    \/ InterruptExit
    \/ Kill

Spec == Init /\ [][Next]_vars

\* SpecLive: the batch with its threads scheduled fairly: a worker that can
\* start a queued task does, a network call (ConnectHandler, the commands)
\* returns or times out, a thread that can take write_lock or go on in
\* log_error, save_result or the loop of batch_execute does. Nothing is
\* assumed about KeyboardInterrupt or a kill of the process.
Fairness ==
    /\ \A d \in Dev :
          /\ WF_vars(TaskStart(d))
          /\ WF_vars(ConnectAttempt(d))
          /\ WF_vars(Dispatch(d))
          /\ WF_vars(TaskLogEnter(d))
          /\ WF_vars(TaskLogLeave(d))
          /\ WF_vars(TakeCompleted(d))
    /\ WF_vars(Submit) /\ WF_vars(BeginDrain)
    /\ WF_vars(SaveOpen) /\ WF_vars(SaveWrite) /\ WF_vars(SaveRename)
    /\ WF_vars(MainLogEnter) /\ WF_vars(MainLogLeave)
    /\ WF_vars(Complete) /\ WF_vars(InterruptExit)

SpecLive == Init /\ [][Next]_vars /\ Fairness

--------------------------------------------------------------------------
(* SpecRerun: the batch is run again on the day of an earlier run: the      *)
(* result directory already holds the earlier, complete result of device 1. *)

PreviousRun ==
    PutFile([q \in {} |-> 0], ResultPath(HostOf(1), "sw", DeviceTypeOf(1)),
            [dev |-> 1, state |-> "full", old |-> TRUE])

InitRerun ==
    /\ BatchStart /\ files = PreviousRun
    /\ LogIdle /\ NormIdle /\ MainIdle /\ TaskIdle /\ MdevIdle

SpecRerun == InitRerun /\ [][Next]_vars

--------------------------------------------------------------------------
(* SpecLog: log_error's redaction,                                          *)
(*   re.sub(r'(password|secret)\s*=\s*\S+', r'\1=***', error, flags=re.I)   *)
(* applied to a message that holds one password=/secret= field. A message   *)
(* is a sequence of tokens: a keyword, "=", a white-space character, or     *)
(* another (non-space) character.                                           *)

MaxValueLen == 3

Keywords == {"password", "PASSWORD", "Secret"}
LowerWord(w) ==
    IF w = "PASSWORD" THEN "password" ELSE IF w = "Secret" THEN "secret" ELSE w
IsKeyword(c) == LowerWord(c) \in {"password", "secret"}     \* (password|secret), re.I
IsSpace(c) == c \in WhiteSpace                              \* \s
SecretChars == {"x", "y"}       \* the characters of the field's value

RECURSIVE SkipSpaces(_, _)
\* the first index >= i of s that holds no white space (Len(s) + 1 if none)
SkipSpaces(s, i) ==
    IF i <= Len(s) /\ IsSpace(s[i]) THEN SkipSpaces(s, i + 1) ELSE i

RECURSIVE SkipNonSpaces(_, _)
SkipNonSpaces(s, i) ==
    IF i <= Len(s) /\ ~IsSpace(s[i]) THEN SkipNonSpaces(s, i + 1) ELSE i

\* the index of the last token of the match of the pattern that starts at
\* index i of s, 0 when none starts there
MatchEnd(s, i) ==
    IF ~IsKeyword(s[i]) THEN 0
    ELSE LET j == SkipSpaces(s, i + 1) IN
         IF j > Len(s) \/ s[j] # "=" THEN 0
         ELSE LET k == SkipSpaces(s, j + 1) IN
              IF k > Len(s) THEN 0 ELSE SkipNonSpaces(s, k) - 1

RECURSIVE SubFrom(_, _)
\* re.sub from index i on: leftmost matches, each replaced by \1=***
SubFrom(s, i) ==
    IF i > Len(s) THEN <<>>
    ELSE IF MatchEnd(s, i) > 0
    THEN <<s[i], "=", "*", "*", "*">> \o SubFrom(s, MatchEnd(s, i) + 1)
    ELSE <<s[i]>> \o SubFrom(s, i + 1)

Sanitize(error) == SubFrom(error, 1)

\* sequences over S of length 1..n
SeqsUpTo(S, n) == UNION {[1..k -> S] : k \in 1..n}

\* the values of a field: secret characters, possibly with white space inside
FieldValues ==
    {v \in SeqsUpTo(SecretChars \cup {" "}, MaxValueLen) :
        v[1] # " " /\ v[Len(v)] # " "}

Gaps == {<<>>, <<" ">>}
Prefixes == {<<>>, <<"a", " ">>}
Suffixes == {<<>>, <<" ", "a">>, <<"\n", "a", "=", "a">>}

\* the message: text, keyword, "=", value, text
Message(m) == m.pre \o <<m.kw>> \o m.gap1 \o <<"=">> \o m.gap2 \o m.value \o m.post

LogInit ==
    /\ logIn \in [pre : Prefixes, kw : Keywords, gap1 : Gaps, gap2 : Gaps,
                  value : FieldValues, post : Suffixes]
    /\ logOut = <<>>
    /\ logDone = FALSE

\* log_error(ip, error): the sanitized message is written (the line's
\* timestamp and host are left out)
LogError ==
    /\ ~logDone
    /\ logOut' = Sanitize(Message(logIn))
    /\ logDone' = TRUE
    /\ UNCHANGED <<batchVars, normVars, mainVars, taskVars, mdevVars, logIn>>

InitLog ==
    /\ BatchInit /\ max_workers = 1 /\ NormIdle /\ MainIdle /\ TaskIdle /\ MdevIdle
    /\ LogInit
NextLog == LogError
SpecLog == InitLog /\ [][NextLog]_vars

\* C5: whatever the field's value, no character of it is in the line
\* log_error writes.
C5_ValueRedacted ==
    logDone => \A i \in 1..Len(logOut) : logOut[i] \notin SecretChars

--------------------------------------------------------------------------
(* SpecNorm: normalize_device_type on a raw device_type string, in two runs *)
(* of the program. SUPPORTED_DEVICE_TYPES is a Python set of strings: the   *)
(* order in which the fuzzy-match loop visits it is fixed within a run and  *)
(* differs between runs (string hashing is randomized per process), so the  *)
(* loop may return any of the matching identifiers.                         *)

MaxTypeLen == 3

\* some of netmiko's CLASS_MAPPER keys
SUPPORTED_DEVICE_TYPES == {
    <<"c", "i", "s", "c", "o", "_", "i", "o", "s">>,
    <<"c", "i", "s", "c", "o", "_", "i", "o", "s", "_", "t", "e", "l", "n", "e", "t">>,
    <<"c", "i", "s", "c", "o", "_", "x", "e">>,
    <<"h", "u", "a", "w", "e", "i">>,
    <<"h", "u", "a", "w", "e", "i", "_", "v", "r", "p", "v", "8">>,
    <<"l", "i", "n", "u", "x">> }

\* some of DEVICE_TYPE_ALIASES' (alias, canonical type) entries
DEVICE_TYPE_ALIASES == {
    <<<<"c", "i", "s", "c", "o">>, <<"c", "i", "s", "c", "o", "_", "i", "o", "s">>>>,
    <<<<"i", "o", "s", "_", "x", "e">>, <<"c", "i", "s", "c", "o", "_", "x", "e">>>>,
    <<<<"v", "r", "p">>, <<"h", "u", "a", "w", "e", "i">>>>,
    <<<<"h", "u", "a", "w", "e", "i">>, <<"h", "u", "a", "w", "e", "i">>>>,
    <<<<"v", "r", "p", "v", "8">>, <<"h", "u", "a", "w", "e", "i", "_", "v", "r", "p", "v", "8">>>>,
    <<<<"l", "i", "n", "u", "x">>, <<"l", "i", "n", "u", "x">>>>,
    <<<<"u", "b", "u", "n", "t", "u">>, <<"l", "i", "n", "u", "x">>>> }

AliasKeys == {e[1] : e \in DEVICE_TYPE_ALIASES}
AliasOf(t) == (CHOOSE e \in DEVICE_TYPE_ALIASES : e[1] = t)[2]

LowerChar(c) ==
    IF c = "C" THEN "c" ELSE IF c = "I" THEN "i" ELSE IF c = "O" THEN "o"
    ELSE IF c = "S" THEN "s" ELSE IF c = "X" THEN "x" ELSE IF c = "E" THEN "e"
    ELSE c
Lower(t) == [i \in 1..Len(t) |-> LowerChar(t[i])]

\* Python's `a in b` on strings
Contains(a, b) ==
    \E i \in 1..(Len(b) - Len(a) + 1) : SubSeq(b, i, i + Len(a) - 1) = a

\* original_type = device_type.lower().strip()
OriginalType(device_type) == Strip(Lower(device_type))

\* the supported types the fuzzy-match loop would return on reaching them
FuzzyMatches(original_type) ==
    {t \in SUPPORTED_DEVICE_TYPES :
        Contains(original_type, t) \/ Contains(t, original_type)}

\* what normalize_device_type may return, over the iteration orders of the set
NormalizeOutcomes(device_type) ==
    LET original_type == OriginalType(device_type) IN
    IF original_type \in SUPPORTED_DEVICE_TYPES THEN {original_type}
    ELSE IF /\ original_type \in AliasKeys
            /\ AliasOf(original_type) \in SUPPORTED_DEVICE_TYPES
    THEN {AliasOf(original_type)}
    ELSE IF FuzzyMatches(original_type) # {} THEN FuzzyMatches(original_type)
    ELSE {original_type}

TypeAlphabet == {"i", "o", "s", "x", "e", "I", " "}

\* the raw strings tried: every short string over TypeAlphabet, and some
\* longer ones; a validated device_type is not empty
RawTypes ==
    {t \in SeqsUpTo(TypeAlphabet, MaxTypeLen) : Strip(t) # <<>>} \cup {
    <<"c", "i", "s", "c", "o", "_", "i", "o", "s">>,
    <<"C", "i", "s", "c", "o">>,
    <<"I", "O", "S", "_", "X", "E">>,
    <<"v", "r", "p", "v", "8">>,
    <<"c", "i", "s", "c", "o", "_">>,
    <<"u", "b", "u", "n", "t", "u">>,
    <<"h", "3", "c">>,
    <<"c", "i", "s", "c", "o", "_", "i", "o", "s", "_", "t", "e", "l", "n", "e", "t">> }

NormInit ==
    /\ normIn \in RawTypes
    /\ normOut = <<<<>>, <<>>>>
    /\ cfgOut = ""

\* run r of the program calls normalize_device_type(normIn)
NormalizeRun(r) ==
    /\ normOut[r] = <<>>
    /\ \E t \in NormalizeOutcomes(normIn) : normOut' = [normOut EXCEPT ![r] = t]
    /\ UNCHANGED <<batchVars, logVars, mainVars, taskVars, mdevVars, normIn, cfgOut>>

\* vendor_mapping, in the order of the dict: the entries whose patterns can
\* occur in the strings of RawTypes
vendor_mapping == <<
    [vendor |-> "cisco",
     patterns |-> { <<"c", "i", "s", "c", "o", "_">>, <<"i", "o", "s">>, <<"n", "x", "o", "s">>,
                    <<"a", "s", "a">>, <<"w", "l", "c">>, <<"x", "e">>, <<"x", "r">> }],
    [vendor |-> "huawei",
     patterns |-> { <<"h", "u", "a", "w", "e", "i">>, <<"v", "r", "p">> }] >>

\* the keys of DEVICE_VENDOR_CONFIGS; a profile is named by its key
DEVICE_VENDOR_CONFIGS ==
    {"cisco", "huawei", "juniper", "hp", "fortinet", "paloalto", "dell",
     "extreme", "ruckus", "default"}

\* get_device_vendor: the first vendor one of whose patterns occurs in the
\* lower-cased device_type, else 'default'
get_device_vendor(device_type) ==
    LET t == Lower(device_type)
        Hits == {k \in 1..Len(vendor_mapping) :
                    \E pattern \in vendor_mapping[k].patterns : Contains(pattern, t)}
    IN IF Hits = {} THEN "default"
       ELSE vendor_mapping[CHOOSE k \in Hits : \A j \in Hits : k <= j].vendor

\* get_device_config: DEVICE_VENDOR_CONFIGS.get(vendor, DEVICE_VENDOR_CONFIGS['default'])
get_device_config(device_type) ==
    IF get_device_vendor(device_type) \in DEVICE_VENDOR_CONFIGS
    THEN get_device_vendor(device_type) ELSE "default"

\* connect_device(device) of run 1 looks up the profile of
\* device['device_type'], which load_excel set to normalize_device_type's result
ConfigRun ==
    /\ normOut[1] # <<>>
    /\ cfgOut = ""
    /\ cfgOut' = get_device_config(normOut[1])
    /\ UNCHANGED <<batchVars, logVars, mainVars, taskVars, mdevVars, normIn, normOut>>

InitNorm ==
    /\ BatchInit /\ max_workers = 1 /\ LogIdle /\ MainIdle /\ TaskIdle /\ MdevIdle
    /\ NormInit
NextNorm == (\E r \in {1, 2} : NormalizeRun(r)) \/ ConfigRun
SpecNorm == InitNorm /\ [][NextNorm]_vars

\* C10: normalize_device_type returns, and two evaluations on the same
\* input, in the same or in different runs, return the same identifier.
C10_Deterministic ==
    (normOut[1] # <<>> /\ normOut[2] # <<>>) => normOut[1] = normOut[2]

--------------------------------------------------------------------------
(* SpecMain: main() from the parsed arguments to the start of the batch:    *)
(* load_excel reads and validates the rows of the sheet, then batch_execute *)
(* creates the executor with max_workers = args.threads and submits every   *)
(* loaded device.                                                           *)

MaxRows == 2

\* a data row of the sheet: complete with a supported device_type, with a
\* required field empty, complete with a device_type that normalizes to no
\* supported type, or without any cell
RowKinds == {"valid", "missing", "unknown", "blank"}

\* values of -t/--threads (type=int, no range check); the default is
\* DEFAULT_THREADS = min(900, max(4, cpu_count)), a value in 4..900
ThreadRequests == {-1, 0, 1, 2, 4, 899, 900, 901, 1000}

\* validate_device_data raises ValueError
ValidateRaises(kind) == kind = "missing"

\* validate_device_data prints the [WARN] line (to stdout, not error.log)
ValidateWarns(kind) == kind = "unknown"

\* ThreadPoolExecutor(max_workers=n) raises ValueError for n <= 0
ExecutorRaises(n) == n <= 0

\* the pool size batch_execute asks for, given args.threads
PoolSizeFor(n) == n

MainInit ==
    /\ threads \in ThreadRequests
    /\ rows \in SeqsUpTo(RowKinds, MaxRows)
    /\ rowIdx = 0 /\ devices = <<>> /\ warned = {}
    /\ mpc = "load" /\ poolSize = 0 /\ scheduled = {}

\* one iteration of load_excel's loop over the rows; a ValueError from
\* validate_device_data is caught by load_excel's except Exception, which
\* prints and calls sys.exit(1)
LoadRow ==
    /\ mpc = "load"
    /\ rowIdx < Len(rows)
    /\ rowIdx' = rowIdx + 1
    /\ LET kind == rows[rowIdx + 1] IN
        IF kind = "blank"
        THEN UNCHANGED <<devices, warned, mpc>>
        ELSE IF ValidateRaises(kind)
        THEN /\ mpc' = "exited"
             /\ UNCHANGED <<devices, warned>>
        ELSE /\ warned' = IF ValidateWarns(kind) THEN warned \cup {rowIdx + 1}
                          ELSE warned
             /\ devices' = Append(devices, rowIdx + 1)
             /\ mpc' = mpc
    /\ UNCHANGED <<batchVars, logVars, normVars, taskVars, mdevVars, threads, rows, poolSize, scheduled>>

\* load_excel returns devices
LoadReturn ==
    /\ mpc = "load"
    /\ rowIdx = Len(rows)
    /\ mpc' = "loaded"
    /\ UNCHANGED <<batchVars, logVars, normVars, taskVars, mdevVars, threads, rows, rowIdx, devices,
                   warned, poolSize, scheduled>>

\* batch_execute(devices, args.config_set, args.threads, ...): the executor
\* is created and every device is submitted; a ValueError from the
\* constructor is caught by nobody (main catches KeyboardInterrupt only)
CreatePool ==
    /\ mpc = "loaded"
    /\ IF ExecutorRaises(PoolSizeFor(threads))
       THEN /\ mpc' = "raised"
            /\ UNCHANGED <<poolSize, scheduled>>
       ELSE /\ mpc' = "batch"
            /\ poolSize' = PoolSizeFor(threads)
            /\ scheduled' = {devices[i] : i \in 1..Len(devices)}
    /\ UNCHANGED <<batchVars, logVars, normVars, taskVars, mdevVars, threads, rows, rowIdx, devices, warned>>

InitMain ==
    /\ BatchInit /\ max_workers = 1 /\ LogIdle /\ NormIdle /\ TaskIdle /\ MdevIdle
    /\ MainInit
NextMain == LoadRow \/ LoadReturn \/ CreatePool
SpecMain == InitMain /\ [][NextMain]_vars

RowsOf(kind) == {i \in 1..Len(rows) : rows[i] = kind}

\* C11: a record with a required field missing is skipped: it never enters
\* scheduling, the program is not aborted by it, and once the batch is
\* started every complete record of the sheet has been scheduled.
C11_MissingSkipped ==
    /\ mpc # "exited"
    /\ \A i \in RowsOf("missing") :
          i \notin scheduled /\ \A k \in 1..Len(devices) : devices[k] # i
    /\ mpc = "batch" => (RowsOf("valid") \cup RowsOf("unknown")) \subseteq scheduled

--------------------------------------------------------------------------
(* SpecTask: one call of execute_commands(device, config_set), step by      *)
(* step: the command list, connect_device (parameters, retry loop,          *)
(* post_connection_setup), the commands sent one by one and the blocks of   *)
(* the output, the return value, and the handler of execute_commands.       *)

\* vendors of the devices tried: get_device_vendor(device['device_type'])
TaskVendors == {"cisco", "huawei", "fortinet"}

\* the optional port column: no such column, an empty cell, a number
Ports == {"absent", "", "22"}

\* if device.get('port'): params['port'] = int(device['port'])
PortGiven(port) == port \notin {"absent", ""}

TaskInit ==
    /\ device \in [vendor : TaskVendors, secret : BOOLEAN, readtime : ReadTimes,
                   port : Ports, mult_command : MultCommands]
    /\ config_set \in BOOLEAN
    /\ tstep = "start" /\ tries = 0 /\ sleeps = <<>> /\ setupFailed = FALSE
    /\ sentCmds = <<>> /\ all_output = <<>> /\ taskLog = <<>>
    /\ taskResult = "unset" /\ session = "none"

\* device_type = device['device_type'] of execute_commands is the first
\* statement inside `with conn`: the local is bound from there on
DeviceTypeBound(step) == step \in {"dispatch", "join"}

\* except Exception as e: log_error(device['host'], f"... {device.get(
\* 'original_type', device_type)} ..."); return None. The arguments are
\* evaluated first: reading the local device_type while it is not bound
\* raises UnboundLocalError out of the handler.
Handler ==
    IF DeviceTypeBound(tstep)
    THEN /\ taskLog' = Append(taskLog, "exec")
         /\ taskResult' = "None"
         /\ tstep' = "returned"
    ELSE /\ taskLog' = taskLog
         /\ taskResult' = "Raised"
         /\ tstep' = "returned"

\* execute_commands up to connect_device's loop: the command list, then
\* connect_device's params dict
ExecBegin ==
    /\ tstep = "start"
    /\ IF NoCommands(Cmds(device.mult_command))
       THEN /\ tstep' = "returned" /\ taskResult' = "None"
            /\ UNCHANGED taskLog
       ELSE IF IntRaises(device.readtime)
       THEN Handler
       ELSE /\ tstep' = "connect"
            /\ UNCHANGED <<taskLog, taskResult>>
    /\ UNCHANGED <<batchVars, logVars, normVars, mainVars, mdevVars, session, device,
                   config_set, tries, sleeps, setupFailed, sentCmds, all_output>>

\* an except clause of connect_device's loop, for the iteration `attempt`
\* that failed with o
FailedAttempt(o, attempt) ==
    /\ IF Retries(o, attempt)
       THEN /\ sleeps' = Append(sleeps, Backoff(attempt))
            /\ taskLog' = taskLog
       ELSE /\ sleeps' = sleeps
            /\ taskLog' = Append(taskLog, o)
    /\ IF attempt + 1 < LoopBound
       THEN /\ tstep' = "connect"
            /\ taskResult' = taskResult
       ELSE /\ tstep' = "returned"      \* the loop is over: return None
            /\ taskResult' = "None"

\* conn = netmiko.ConnectHandler(**params)
ExecConnect ==
    /\ tstep = "connect"
    /\ tries' = tries + 1
    /\ \E o \in Outcomes :
        IF o = "ok"
        THEN /\ tstep' = "setup"
             /\ UNCHANGED <<sleeps, taskLog, taskResult>>
        ELSE FailedAttempt(o, tries)
    /\ UNCHANGED <<batchVars, logVars, normVars, mainVars, mdevVars, session, device,
                   config_set, setupFailed, sentCmds, all_output>>

enable_required_vendors == {"cisco", "hp", "ruckus", "extreme", "dell"}

\* the steps post_connection_setup takes on the session
SetupSteps(vendor, secret) ==
    (IF secret /\ vendor \in enable_required_vendors THEN {"enable"} ELSE {})
    \cup (IF vendor = "huawei" THEN {"paging"}
          ELSE IF vendor = "fortinet" THEN {"terminal"} ELSE {})

SetupRaisesOnFailure(failing) == failing # {}
\* every step is in a try whose except clause is `pass`, and the whole body
\* is in a try / except Exception: pass
SetupRaises(failing) == FALSE

\* post_connection_setup(conn, device_type, vendor, secret); return conn;
\* back in execute_commands: with conn, device_type is bound
ExecSetup ==
    /\ tstep = "setup"
    /\ \E failing \in SUBSET SetupSteps(device.vendor, device.secret) :
        /\ setupFailed' = (failing # {})
        /\ IF SetupRaises(failing)
           THEN FailedAttempt("error", tries - 1)
           ELSE /\ tstep' = "dispatch"
                /\ UNCHANGED <<sleeps, taskLog, taskResult>>
    /\ UNCHANGED <<batchVars, logVars, normVars, mainVars, mdevVars, session, device,
                   config_set, tries, sentCmds, all_output>>

\* a block of the output: its header line, the commands it is about, and
\* whether it tells an error
Block(header, cmds, error) == [header |-> header, cmds |-> cmds, error |-> error]

\* execute_config_commands sends the commands one by one for these vendors
PerCommandConfig(vendor) == vendor \in {"paloalto", "fortinet"}

\* execute_show_commands: one iteration of `for cmd in cmds`, the exception
\* of a command is caught inside the iteration
ShowSend(cmds) ==
    LET i == Len(sentCmds) + 1 IN
    /\ sentCmds' = Append(sentCmds, cmds[i])
    /\ \E r \in {"ok", "raises"} :
          all_output' = Append(all_output, Block("Command", <<cmds[i]>>, r = "raises"))
    /\ tstep' = (IF i = Len(cmds) THEN "join" ELSE "dispatch")

\* execute_config_commands for paloalto / fortinet: one iteration of the
\* loop; the try is around the loop, an exception ends it
ConfigSendEach(cmds) ==
    LET i == Len(sentCmds) + 1 IN
    /\ sentCmds' = Append(sentCmds, cmds[i])
    /\ \E r \in {"ok", "raises"} :
          IF r = "ok"
          THEN /\ all_output' = Append(all_output, Block("Config Command", <<cmds[i]>>, FALSE))
               /\ tstep' = (IF i = Len(cmds) THEN "join" ELSE "dispatch")
          ELSE /\ all_output' = Append(all_output, Block("Config execution error", <<>>, TRUE))
               /\ tstep' = "join"

\* execute_config_commands otherwise: conn.send_config_set(cmds), one output
\* for the whole list; when it raises, some of the commands have been sent
ConfigSendSet(cmds) ==
    /\ \E r \in {"ok", "raises"} :
          IF r = "ok"
          THEN /\ sentCmds' = cmds
               /\ all_output' = Append(all_output, Block("", cmds, FALSE))
          ELSE /\ \E k \in 1..Len(cmds) : sentCmds' = SubSeq(cmds, 1, k)
               /\ all_output' = Append(all_output, Block("Config execution error", <<>>, TRUE))
    /\ tstep' = "join"

ExecSend ==
    /\ tstep = "dispatch"
    /\ LET cmds == Cmds(device.mult_command) IN
        IF ~config_set THEN ShowSend(cmds)
        ELSE IF PerCommandConfig(device.vendor) THEN ConfigSendEach(cmds)
        ELSE ConfigSendSet(cmds)
    /\ UNCHANGED <<batchVars, logVars, normVars, mainVars, mdevVars, session, device,
                   config_set, tries, sleeps, setupFailed, taskLog, taskResult>>

\* return "\n\n".join(all_output), leaving `with conn` (the session is
\* closed; an exception of the close goes to the handler)
ExecReturn ==
    /\ tstep = "join"
    /\ \E closed \in BOOLEAN :
        IF closed
        THEN /\ taskResult' = "Output" /\ tstep' = "returned"
             /\ UNCHANGED taskLog
        ELSE Handler
    /\ UNCHANGED <<batchVars, logVars, normVars, mainVars, mdevVars, session, device,
                   config_set, tries, sleeps, setupFailed, sentCmds, all_output>>

InitTask ==
    /\ BatchInit /\ max_workers = 1 /\ LogIdle /\ NormIdle /\ MainIdle /\ MdevIdle
    /\ TaskInit
NextTask == ExecBegin \/ ExecConnect \/ ExecSetup \/ ExecSend \/ ExecReturn
SpecTask == InitTask /\ [][NextTask]_vars

\* C21: a failure of a step of the post-connect setup does not abort the
\* session: the task is then at the dispatch of its commands or beyond, the
\* failed setup caused no retry (the successful ConnectHandler call is the
\* last one, and there are as many waits and log records as failed calls
\* before it), and nothing about it is logged.
C21_SetupFailureHarmless ==
    setupFailed =>
        /\ tstep \in {"dispatch", "join", "returned"}
        /\ Len(sleeps) = tries - 1
        /\ \A i \in 1..Len(taskLog) : taskLog[i] = "exec"
        /\ taskResult # "Raised"

\* the paging command of a huawei device failed after the first handshake,
\* and the commands have been sent
C21_Witness ==
    /\ setupFailed /\ device.vendor = "huawei" /\ tries = 1
    /\ tstep = "join" /\ sentCmds # <<>>

\* the headers execute_show_commands and execute_config_commands put before
\* the echo of a command
EchoHeaders == {"Command", "Config Command"}

\* every command of the list was sent once, in the order of the list, and
\* the output has one block per command, in the same order, each led by
\* a header and the command
InListOrder ==
    LET cmds == Cmds(device.mult_command) IN
    /\ sentCmds = cmds
    /\ Len(all_output) = Len(cmds)
    /\ \A i \in 1..Len(all_output) :
          /\ all_output[i].header \in EchoHeaders
          /\ all_output[i].cmds = <<cmds[i]>>

\* C24: in both execution modes, when the dispatch is over every command
\* has been sent exactly once in list order, whether or not an earlier one
\* failed, and the output holds one block per command, led by the command's
\* echo header, in list order.
C24_CommandsInOrder == tstep = "join" => InListOrder

\* what does hold: the statement in show mode
ShowCommandsInOrder == (tstep = "join" /\ ~config_set) => InListOrder

\* C27: for a device with a non-empty command list, whatever its optional
\* columns hold (readtime or port absent, empty or set), connect_device
\* gets to its loop: the task is never over without a ConnectHandler call.
C27_OptionalColumns ==
    (tstep = "returned" /\ ~NoCommands(Cmds(device.mult_command))) => tries >= 1

\* what does hold: the statement for devices whose readtime is absent or a
\* number, whatever the port column holds
AttemptsUnlessEmptyReadtime ==
    (/\ tstep = "returned" /\ ~NoCommands(Cmds(device.mult_command))
     /\ device.readtime # "") => tries >= 1

\* C28: execute_commands never raises: it returns None or the output, and
\* when an exception reached its handler, also one raised while the
\* connection parameters were built, the handler has appended one record
\* to error.log and the task returned None.
C28_TaskNeverRaises ==
    tstep = "returned" =>
        /\ taskResult \in {"None", "Output"}
        /\ (~NoCommands(Cmds(device.mult_command)) /\ IntRaises(device.readtime))
              => (taskLog = <<"exec">> /\ taskResult = "None")

\* what does hold: an exception raised once the session is open is logged
\* once by the handler, and the task returns None
HandlerLogsOnceConnected ==
    (tstep = "returned" /\ tries >= 1) =>
        /\ taskResult \in {"None", "Output"}
        /\ Len(SelectSeq(taskLog, LAMBDA k : k = "exec")) <= 1

--------------------------------------------------------------------------
(* SpecV16: one call of execute_commands of mdev_time.v1.6.py. Its          *)
(* connect_device makes one ConnectHandler call and, when the device has a  *)
(* secret, conn.enable() inside the same try; execute_commands runs the     *)
(* prompt reading and the commands inside `with conn`, whose exit           *)
(* disconnects the session.                                                 *)

\* the handler of execute_commands (v1.6): log_error, return None
V16Handler ==
    /\ taskLog' = Append(taskLog, "exec")
    /\ taskResult' = "None"
    /\ tstep' = "returned"

\* execute_commands up to ConnectHandler: the command list, then
\* connect_device's params dict with int(device.get('readtime', 20))
V16Begin ==
    /\ tstep = "start"
    /\ IF NoCommands(Cmds(device.mult_command))
       THEN /\ tstep' = "returned" /\ taskResult' = "None"
            /\ UNCHANGED taskLog
       ELSE IF IntRaises(device.readtime)
       THEN V16Handler
       ELSE /\ tstep' = "connect"
            /\ UNCHANGED <<taskLog, taskResult>>
    /\ UNCHANGED <<batchVars, logVars, normVars, mainVars, mdevVars, device,
                   config_set, tries, sleeps, setupFailed, sentCmds,
                   all_output, session>>

\* conn = netmiko.ConnectHandler(**params): the session is open, or the
\* except clauses log the error and connect_device returns None
V16Connect ==
    /\ tstep = "connect"
    /\ tries' = tries + 1
    /\ \E o \in Outcomes :
        IF o = "ok"
        THEN /\ session' = "open"
             /\ tstep' = (IF device.secret THEN "enable" ELSE "dispatch")
             /\ UNCHANGED <<taskLog, taskResult>>
        ELSE /\ taskLog' = Append(taskLog, o)
             /\ taskResult' = "None"
             /\ tstep' = "returned"
             /\ UNCHANGED session
    /\ UNCHANGED <<batchVars, logVars, normVars, mainVars, mdevVars, device,
                   config_set, sleeps, setupFailed, sentCmds, all_output>>

\* what the except clauses of connect_device do to the session conn.enable()
\* failed on: they call log_error only, and conn goes out of scope
AfterEnableFailure(s) == s

\* if params['secret']: conn.enable(); return conn. An exception of enable
\* is caught by connect_device's except Exception: log_error, return None.
V16Enable ==
    /\ tstep = "enable"
    /\ \E r \in {"ok", "raises"} :
        IF r = "ok"
        THEN /\ tstep' = "dispatch"
             /\ UNCHANGED <<taskLog, taskResult, setupFailed, session>>
        ELSE /\ setupFailed' = TRUE
             /\ session' = AfterEnableFailure(session)
             /\ taskLog' = Append(taskLog, "error")
             /\ taskResult' = "None"
             /\ tstep' = "returned"
    /\ UNCHANGED <<batchVars, logVars, normVars, mainVars, mdevVars, device,
                   config_set, tries, sleeps, sentCmds, all_output>>

\* with conn: find_prompt, then send_config_set or send_multiline; leaving
\* the with block, normally or by an exception, disconnects the session
V16Dispatch ==
    /\ tstep = "dispatch"
    /\ session' = "closed"
    /\ \E r \in {"ok", "prompt_raises", "send_raises"} :
        IF r = "ok"
        THEN /\ sentCmds' = Cmds(device.mult_command)
             /\ taskResult' = "Output" /\ tstep' = "returned"
             /\ UNCHANGED taskLog
        ELSE /\ sentCmds' = sentCmds
             /\ V16Handler
    /\ UNCHANGED <<batchVars, logVars, normVars, mainVars, mdevVars, device,
                   config_set, tries, sleeps, setupFailed, all_output>>

InitV16 ==
    /\ BatchInit /\ max_workers = 1 /\ LogIdle /\ NormIdle /\ MainIdle /\ MdevIdle
    /\ TaskInit
NextV16 == V16Begin \/ V16Connect \/ V16Enable \/ V16Dispatch
SpecV16 == InitV16 /\ [][NextV16]_vars

\* C31: when the task is over, the session a successful handshake opened
\* is closed, on every path: also when conn.enable() failed after the
\* handshake and when the prompt reading or a command raised.
C31_SessionClosed == tstep = "returned" => session # "open"

\* what does hold: the session is closed on every path on which
\* conn.enable() did not fail
SessionClosedUnlessEnableFailed ==
    (tstep = "returned" /\ ~setupFailed) => session # "open"

--------------------------------------------------------------------------
(* SpecMdev: connect_mdev.py. net_dev.main submits one mult_cmd_in per      *)
(* device to a pool of 10 threads, then changes the working directory to    *)
(* ./log and waits for the pool. A task writes <ip>.txt on success and      *)
(* appends a line to the failure list, under self.lock, on an               *)
(* authentication failure or a timeout. Both files are opened by relative   *)
(* name, that is in the working directory of the moment.                    *)

MdevInit ==
    /\ cwd = "start" /\ lock = Unlocked
    /\ mtask = [d \in Dev |-> "unsubmitted"]
    /\ msubmitted = 0 /\ mmain = "submit" /\ written = {}

\* a file written by the task of device d: where, and which one
FileIn(dir, name, d) == [dir |-> dir, name |-> name, dev |-> d]

\* self.pool.submit(self.mult_cmd_in, ...) in the for loop of main
MdevSubmit ==
    /\ mmain = "submit"
    /\ msubmitted < NumDevices
    /\ msubmitted' = msubmitted + 1
    /\ mtask' = [mtask EXCEPT ![msubmitted + 1] = "queued"]
    /\ UNCHANGED <<batchVars, logVars, normVars, mainVars, taskVars, cwd, lock,
                   mmain, written>>

\* os.chdir(self.path)
MdevChdir ==
    /\ mmain = "submit"
    /\ msubmitted = NumDevices
    /\ cwd' = "log"
    /\ mmain' = "shutdown"
    /\ UNCHANGED <<batchVars, logVars, normVars, mainVars, taskVars, lock, mtask,
                   msubmitted, written>>

\* self.pool.shutdown(True) returns when every task is over
MdevShutdown ==
    /\ mmain = "shutdown"
    /\ \A d \in Dev : mtask[d] \in {"done", "raised"}
    /\ mmain' = "returned"
    /\ UNCHANGED <<batchVars, logVars, normVars, mainVars, taskVars, cwd, lock,
                   mtask, msubmitted, written>>

\* mult_cmd_in up to the end of send_multiline: the session is opened and
\* the commands are answered, or NetmikoAuthenticationException or
\* NetmikoTimeoutException is raised and caught, or another exception
\* leaves the task
MultCmdConnect(d) ==
    /\ mtask[d] = "queued"
    /\ \E o \in OutcomesOf(d) :
          mtask' = [mtask EXCEPT ![d] =
                      IF o = "ok" THEN "save"
                      ELSE IF o \in {"auth", "timeout"} THEN "acquire"
                      ELSE "raised"]
    /\ UNCHANGED <<batchVars, logVars, normVars, mainVars, taskVars, cwd, lock,
                   msubmitted, mmain, written>>

\* with open(ip + ".txt", "w") as tmp_fle: tmp_fle.write(cmd_out + '\n')
MultCmdSave(d) ==
    /\ mtask[d] = "save"
    /\ written' = written \cup {FileIn(cwd, "result", d)}
    /\ mtask' = [mtask EXCEPT ![d] = "done"]
    /\ UNCHANGED <<batchVars, logVars, normVars, mainVars, taskVars, cwd, lock,
                   msubmitted, mmain>>

\* self.lock.acquire()
MultCmdAcquire(d) ==
    /\ mtask[d] = "acquire"
    /\ lock = Unlocked
    /\ lock' = d
    /\ mtask' = [mtask EXCEPT ![d] = "append"]
    /\ UNCHANGED <<batchVars, logVars, normVars, mainVars, taskVars, cwd,
                   msubmitted, mmain, written>>

\* self.lock.release() is the statement after the with block: it is
\* reached when open and write did not raise
ReleaseReached(io) == io = "ok"

\* with open("登录失败列表", "a") as failed_ip: failed_ip.write(...);
\* self.lock.release(). An OSError of open or write leaves the task.
MultCmdAppend(d) ==
    /\ mtask[d] = "append"
    /\ \E io \in {"ok", "fails"} :
          /\ written' = (IF io = "ok" THEN written \cup {FileIn(cwd, "failed", d)}
                         ELSE written)
          /\ lock' = (IF ReleaseReached(io) THEN Unlocked ELSE lock)
          /\ mtask' = [mtask EXCEPT ![d] = IF io = "ok" THEN "done" ELSE "raised"]
    /\ UNCHANGED <<batchVars, logVars, normVars, mainVars, taskVars, cwd,
                   msubmitted, mmain>>

InitMdev ==
    /\ BatchInit /\ max_workers = 1 /\ LogIdle /\ NormIdle /\ MainIdle /\ TaskIdle
    /\ MdevInit
NextMdev ==
    \/ MdevSubmit
    \/ MdevChdir
    \/ MdevShutdown
    \/ \E d \in Dev : MultCmdConnect(d)
    \/ \E d \in Dev : MultCmdSave(d)
    \/ \E d \in Dev : MultCmdAcquire(d)
    \/ \E d \in Dev : MultCmdAppend(d)
SpecMdev == InitMdev /\ [][NextMdev]_vars

\* C29: the failure-list lock is released on every path that acquired it:
\* a task that is over, normally or by an exception, does not hold the
\* lock, so a task waiting for the lock is waiting for a running task.
C29_LockReleased ==
    \A d \in Dev : mtask[d] \in {"done", "raised"} => lock # d

\* what follows from a kept lock: a task waits for a lock whose holder is
\* over, and pool.shutdown(True) cannot return
BlockedForever ==
    /\ mmain = "shutdown"
    /\ \E d, e \in Dev : mtask[d] = "acquire" /\ mtask[e] = "raised" /\ lock = e

\* C30: every result file and every failure-list line is written in ./log,
\* whatever the interleaving of the tasks with main's os.chdir.
C30_WrittenInLog == \A f \in written : f.dir = "log"

--------------------------------------------------------------------------
(* Properties of the batch (checked under Spec)                            *)

\* complete lines of error.log about device d
LogLinesAbout(d) ==
    Cardinality({i \in 1..Len(errorLog) :
                    errorLog[i].about = d /\ errorLog[i].part = 2})

LogLines == Cardinality({i \in 1..Len(errorLog) : errorLog[i].part = 2})

\* device d's result is in the result directory
HasResultFile(d) ==
    /\ hostname[d] # ""
    /\ PathOf(d) \in DOMAIN files
    /\ files[PathOf(d)].dev = d

\* C1: connect_device makes at most 3 ConnectHandler calls for a device
\* (one initial attempt and at most max_retries = 2 retries), whatever the
\* outcomes of the attempts.
C1_AttemptsBounded == \A d \in Dev : attempts[d] <= 3

C1_Witness ==
    \E d \in Dev : attempts[d] = 3 /\ lastOutcome[d] = "timeout" /\ tpc[d] = "done"

\* C2: an authentication failure is not retried: once an attempt has ended
\* with an authentication failure no backoff wait is taken and the task is
\* on its way to fail (logging the error, or over with no output), never
\* back at a next attempt.
C2_AuthNoRetry ==
    \A d \in Dev :
        lastOutcome[d] = "auth" =>
            /\ Len(waits[d]) < attempts[d]
            /\ tpc[d] \in {"logwait", "logmid", "done"}
            /\ (tpc[d] = "done" => result[d] = "None")

NonEmptyCommands == \A d \in Dev : ~cmdsEmpty[d]

DistinctResultNames ==
    \A d, e \in Dev :
        (d # e /\ result[d] = "Output" /\ result[e] = "Output")
            => PathOf(d) # PathOf(e)

\* C3: when a batch of N distinct profiles completes, exactly N entries
\* exist across the result files and the audit log, and every device has
\* exactly one of a result file or an audit-log entry. (Stated for batches
\* whose command lists are all non-empty: a device with no command is
\* skipped with a warning by design and has neither.)
C3_ExactlyNEntries ==
    (opc = "returned" /\ NonEmptyCommands) =>
        /\ Cardinality(DOMAIN files) + LogLines = NumDevices
        /\ \A d \in Dev : (HasResultFile(d) /\ LogLinesAbout(d) = 0)
                          \/ (~HasResultFile(d) /\ LogLinesAbout(d) = 1)

\* what does hold: the count is right whenever no two results share a file
\* name
ExactlyNEntriesIfDistinctNames ==
    (opc = "returned" /\ NonEmptyCommands /\ DistinctResultNames) =>
        /\ Cardinality(DOMAIN files) + LogLines = NumDevices
        /\ \A d \in Dev : (HasResultFile(d) /\ LogLinesAbout(d) = 0)
                          \/ (~HasResultFile(d) /\ LogLinesAbout(d) = 1)

\* C4: in every state, also when the process has been killed between the
\* write of the temporary file and the rename, a final result path that
\* exists holds a completed result in full: it is never zero-byte or
\* half-written.
C4_AtomicResult == \A q \in DOMAIN files : files[q].state = "full"

\* killed after the temporary file was written and before the rename, with
\* an earlier result under the same name
C4_Witness ==
    /\ opc = "killed"
    /\ tmpFiles[cur] = "full"
    /\ PathOf(cur) \in DOMAIN files
    /\ files[PathOf(cur)].dev # cur

\* process p is inside log_error's critical section
InLog(p) == IF p = Main THEN opc = "logmid" ELSE tpc[p] = "logmid"

\* every chunk of error.log is followed, or preceded, by the other chunk of
\* the same record
WholeLines ==
    \A i \in 1..Len(errorLog) :
        IF errorLog[i].part = 1
        THEN i < Len(errorLog) =>
                /\ errorLog[i + 1].part = 2
                /\ errorLog[i + 1].who = errorLog[i].who
                /\ errorLog[i + 1].about = errorLog[i].about
        ELSE /\ i > 1
             /\ errorLog[i - 1].part = 1
             /\ errorLog[i - 1].who = errorLog[i].who
             /\ errorLog[i - 1].about = errorLog[i].about

\* C6: at most one caller of log_error is appending to error.log at any
\* time, and the chunks of two records never interleave in the file.
C6_LogSerialized ==
    /\ Cardinality({p \in Proc : InLog(p)}) <= 1
    /\ WholeLines

\* a task holds the lock with the first chunk of its record in the file
\* while the main thread waits in log_error for the same lock
C6_Witness ==
    /\ \E d \in Dev : tpc[d] = "logmid" /\ write_lock = d
    /\ opc = "logwait"
    /\ Len(errorLog) = 1 /\ errorLog[1].part = 1

C8_InterruptCancelsQueued ==
    opc \in {"shutdown", "exited"} => \A d \in Dev : tpc[d] # "pending"

\* C9: the exit status is 0 when the batch runs to completion and non-zero
\* when it is cancelled by an interrupt.
C9_ExitStatus ==
    /\ opc = "returned" => exitStatus = 0
    /\ opc = "exited" => exitStatus # 0

\* devices whose task returned an output (command execution succeeded)
Executed == {d \in Dev : result[d] = "Output"}

\* C12: save_result never raises to batch_execute: no failure of persisting
\* reaches the except clause of the loop body (which logs a record of kind
\* "mkdir" in this model), and when the batch completes every device whose
\* command execution succeeded is counted as succeeded.
C12_SaveNeverRaises ==
    /\ ologKind # "mkdir"
    /\ \A i \in 1..Len(errorLog) : errorLog[i].kind # "mkdir"
    /\ opc = "returned" => success_count = Cardinality(Executed)

\* C13: a device whose command list is empty after splitting and trimming
\* is skipped and nothing else changes for it: no connection attempt and no
\* backoff wait is made, no result or temporary file is written for it, no
\* record about it is appended to error.log, its future holds None, and it
\* is not counted as succeeded.
C13_EmptySkipped ==
    /\ \A d \in Dev :
          cmdsEmpty[d] =>
            /\ attempts[d] = 0 /\ waits[d] = <<>> /\ hostname[d] = ""
            /\ tpc[d] = "done" /\ result[d] = "None"
            /\ tmpFiles[d] = "none"
            /\ \A q \in DOMAIN files : files[q].dev # d
            /\ \A i \in 1..Len(errorLog) : errorLog[i].about # d
    /\ success_count <= Cardinality({d \in Dev : ~cmdsEmpty[d]})

\* the batch is over; one device was skipped for its empty command list, the
\* other one has its result file
C13_Witness ==
    /\ opc = "returned"
    /\ \E d, e \in Dev :
          /\ cmdsEmpty[d] /\ d \in processed
          /\ ~cmdsEmpty[e] /\ HasResultFile(e)

\* normalize_device_type reaches its last line for device_type: no exact,
\* alias or fuzzy match
ReachesFallback(device_type) ==
    LET original_type == OriginalType(device_type) IN
    /\ original_type \notin SUPPORTED_DEVICE_TYPES
    /\ ~(original_type \in AliasKeys /\ AliasOf(original_type) \in SUPPORTED_DEVICE_TYPES)
    /\ FuzzyMatches(original_type) = {}

\* C14: for a device-type string that resolves to no supported identifier,
\* the profile get_device_config returns is the default one.
C14_UnknownGetsDefault ==
    (cfgOut # "" /\ ReachesFallback(normIn)) => cfgOut = "default"

\* complete advisory records of error.log about the device of row i
AdvisoriesAbout(i) ==
    Cardinality({k \in 1..Len(errorLog) :
                    /\ errorLog[k].about = i
                    /\ errorLog[k].kind = "advisory"
                    /\ errorLog[k].part = 2})

\* C15: once the batch is started, a device whose device_type is unknown has
\* exactly one advisory record in error.log and has been scheduled.
C15_UnknownTypeAdvised ==
    mpc = "batch" =>
        \A i \in RowsOf("unknown") : AdvisoriesAbout(i) = 1 /\ i \in scheduled

\* C16: a device one of whose commands was rejected or raised ends failed:
\* no result file is written for it, once its future has been handled one
\* error.log record tells the failure and it is not counted as succeeded.
C16_CommandFailureFails ==
    /\ \A d \in Dev :
          cmdError[d] =>
            /\ \A q \in DOMAIN files : files[q].dev # d
            /\ d \in processed => LogLinesAbout(d) = 1
    /\ success_count <= Cardinality({d \in processed : ~cmdError[d]})

\* device d could not be connected: its last attempt failed on the
\* credentials or timed out, and connect_device gave up
ConnectFailed(d) ==
    /\ ~cmdsEmpty[d] /\ result[d] = "None"
    /\ lastOutcome[d] \in {"auth", "timeout"}

\* device d is healthy: connected at once, every command answered
Healthy(d) ==
    /\ ~cmdsEmpty[d] /\ result[d] = "Output"
    /\ attempts[d] = 1 /\ ~cmdError[d]

\* the batch is made of unreachable / wrong-credential devices and healthy
\* ones, and the result directory can be written
MixedBatch ==
    /\ \A d \in Dev : ConnectFailed(d) \/ Healthy(d)
    /\ \A i \in 1..Len(errorLog) : errorLog[i].kind \in {"auth", "timeout"}

\* a record about a failed connection is written after the last attempt
LoggedAfterLastAttempt ==
    \A i \in 1..Len(errorLog) :
        errorLog[i].kind \in {"auth", "timeout"}
            => attempts[errorLog[i].about] = max_retries + 1

\* C17: when a batch of a wrong-credential, t unreachable and h healthy
\* devices completes there are exactly h result files and a + t error.log
\* records, each written after the device's last attempt, and h devices are
\* counted as succeeded (out of a + t + h).
C17_MixedBatchCounts ==
    /\ LoggedAfterLastAttempt
    /\ (opc = "returned" /\ MixedBatch) =>
          /\ Cardinality(DOMAIN files) = Cardinality({d \in Dev : Healthy(d)})
          /\ LogLines = Cardinality({d \in Dev : ConnectFailed(d)})
          /\ \A d \in Dev : ConnectFailed(d) => LogLinesAbout(d) = 1
          /\ success_count = Cardinality({d \in Dev : Healthy(d)})

\* what does hold: the counts are right whenever no two results share a
\* file name
MixedBatchCountsIfDistinctNames ==
    /\ LoggedAfterLastAttempt
    /\ (opc = "returned" /\ MixedBatch /\ DistinctResultNames) =>
          /\ Cardinality(DOMAIN files) = Cardinality({d \in Dev : Healthy(d)})
          /\ LogLines = Cardinality({d \in Dev : ConnectFailed(d)})
          /\ \A d \in Dev : ConnectFailed(d) => LogLinesAbout(d) = 1
          /\ success_count = Cardinality({d \in Dev : Healthy(d)})

\* the requested concurrency n clamped into 1..900
Clamped(n) == IF n < 1 THEN 1 ELSE IF n > 900 THEN 900 ELSE n

\* C18: whatever concurrency is requested, batch_execute gets its executor,
\* and the executor's size is the requested value clamped into 1..900.
C18_PoolClamped ==
    /\ mpc # "raised"
    /\ mpc = "batch" => poolSize = Clamped(threads)

\* saving device d's result met no failure of the file system other than
\* the final path being there already
NoDiskFailure(d) ==
    \A i \in 1..Len(errorLog) :
        errorLog[i].about = d => errorLog[i].kind \notin {"save", "mkdir"}

\* C19: when the batch is run again on the same day for the same device
\* (same host, hostname and device type) the earlier result is overwritten:
\* the path never holds a partial or mixed content, and once the device's
\* new output has been handled the path holds content of the second run.
C19_RerunOverwrites ==
    /\ \A q \in DOMAIN files : files[q].state = "full"
    /\ (/\ 1 \in processed /\ result[1] = "Output" /\ hostname[1] = "sw"
        /\ NoDiskFailure(1))
          => /\ PathOf(1) \in DOMAIN files
             /\ ~files[PathOf(1)].old

\* C20: two devices of one batch with distinct hosts never have the same
\* final result path.
C20_DistinctPaths ==
    \A d, e \in Dev :
        (HostOf(d) # HostOf(e) /\ hostname[d] # "" /\ hostname[e] # "")
            => PathOf(d) # PathOf(e)

\* a task of device d is over (Succeeded or Failed) or will never run
Terminal(d) == tpc[d] \in {"done", "cancelled"}

\* C22: batch_execute schedules one task per device and none twice: once
\* all are submitted no device is without a task, a task is queued only for
\* a device that had none, a task that is over stays over and makes no
\* further connection attempt, and an attempt is only made by the device's
\* task while it is in its connecting phase.
C22_OneTaskPerDevice ==
    /\ [](opc \in {"drain", "returned"} => \A d \in Dev : tpc[d] # "unsubmitted")
    /\ [][\A d \in Dev :
            /\ (tpc'[d] = "pending" /\ tpc[d] # "pending") => tpc[d] = "unsubmitted"
            /\ Terminal(d) => (tpc'[d] = tpc[d] /\ attempts'[d] = attempts[d])
            /\ attempts'[d] # attempts[d] =>
                  (tpc[d] = "connect" /\ attempts'[d] = attempts[d] + 1)]_vars

\* the batch is over; one device failed after three attempts, the other
\* one succeeded at its second attempt
C22_Witness ==
    /\ opc = "returned"
    /\ \E d, e \in Dev :
          /\ result[d] = "None" /\ attempts[d] = 3
          /\ result[e] = "Output" /\ attempts[e] = 2

\* ConnectHandler calls of device d that have failed so far
FailedAttempts(d) == attempts[d] - (IF lastOutcome[d] = "ok" THEN 1 ELSE 0)

\* C23: the waits of a device's task are 1 s after its first failed attempt
\* and 2 s after its second one, in this order, and there is no other wait:
\* none after a third failed attempt, none after a successful attempt.
C23_ExponentialBackoff ==
    \A d \in Dev :
        waits[d] = SubSeq(<<1, 2>>, 1,
                          IF FailedAttempts(d) < 2 THEN FailedAttempts(d) ELSE 2)

\* a device connected at its third attempt, after waits of 1 s and 2 s
C23_Witness ==
    \E d \in Dev :
        attempts[d] = 3 /\ lastOutcome[d] = "ok" /\ waits[d] = <<1, 2>>

\* result r follows the priority order for the raw string device_type,
\* matched in lower case without surrounding white space: exact match, else
\* alias table, else a supported identifier in a containment relation with
\* it, else the string `fallback`
FollowsPriority(r, device_type, fallback) ==
    LET o == OriginalType(device_type) IN
    /\ o \in SUPPORTED_DEVICE_TYPES => r = o
    /\ (o \notin SUPPORTED_DEVICE_TYPES /\ o \in AliasKeys) => r = AliasOf(o)
    /\ (o \notin SUPPORTED_DEVICE_TYPES /\ o \notin AliasKeys /\ FuzzyMatches(o) # {})
          => r \in FuzzyMatches(o)
    /\ ReachesFallback(device_type) => r = fallback

\* C25: normalize_device_type resolves in priority order (exact match,
\* alias table, substring containment), and when nothing matches it returns
\* the raw input string unchanged.
C25_PriorityOrder ==
    \A r \in {1, 2} :
        normOut[r] # <<>> => FollowsPriority(normOut[r], normIn, normIn)

\* what does hold: the same order, the fallback returning the raw string in
\* lower case and without surrounding white space
PriorityOrderLowered ==
    \A r \in {1, 2} :
        normOut[r] # <<>> => FollowsPriority(normOut[r], normIn, OriginalType(normIn))

====
